---------------------------- MODULE Spec2Model ----------------------------
(***************************************************************************)
(* A model of the client of the Stock-Screener repository: the response    *)
(* resolver of services/api.js and services/sectorApi.js (handleResponse), *)
(* the upload workflow of pages/Dashboard.jsx, the session store of        *)
(* context/AuthContext.jsx and the sector panel of                         *)
(* components/SectorPerformance.jsx.                                       *)
(*                                                                         *)
(* JavaScript runs each task to completion: a handler runs up to its first *)
(* await, and the continuation of an await runs (with the microtasks it    *)
(* queues) when the awaited call settles.  An action of the model is one   *)
(* such task.  JavaScript strings are sequences of one-character strings,  *)
(* JavaScript values are tagged records.                                   *)
(***************************************************************************)
EXTENDS Integers, Sequences, FiniteSets, TLC

(***************************************************************************)
(* JavaScript values                                                       *)
(***************************************************************************)
JUndefined == [t |-> "undefined"]
JNull == [t |-> "null"]
JStr(s) == [t |-> "str", v |-> s]
JBool(b) == [t |-> "bool", v |-> b]
JNum(n) == [t |-> "num", v |-> n]
\* an object is the sequence of its members <<key, value>> in source order
JObj(members) == [t |-> "obj", v |-> members]
JArr(elems) == [t |-> "arr", v |-> elems]

\* ToBoolean: what `if (v)`, `v || w` and `v && w` test
Truthy(v) ==
    CASE v.t = "undefined" -> FALSE
      [] v.t = "null" -> FALSE
      [] v.t = "str" -> v.v # <<>>
      [] v.t = "bool" -> v.v
      [] v.t = "num" -> v.v # 0
      [] OTHER -> TRUE

\* v || w
Or(v, w) == IF Truthy(v) THEN v ELSE w

\* o.key throws a TypeError when o is null or undefined
GetThrows(o) == o.t \in {"null", "undefined"}

\* o.key: the last member named key of an object, undefined when there is none
Get(o, key) ==
    IF o.t # "obj" THEN JUndefined
    ELSE LET idx == {i \in 1..Len(o.v) : o.v[i][1] = key}
         IN IF idx = {} THEN JUndefined
            ELSE o.v[CHOOSE i \in idx : \A j \in idx : j <= i][2]

(***************************************************************************)
(* Strings                                                                 *)
(***************************************************************************)
Min(a, b) == IF a <= b THEN a ELSE b

\* s.substring(a, b) for 0 <= a <= b
Substring(s, a, b) == SubSeq(s, a + 1, Min(b, Len(s)))

\* s.includes(sub)
Includes(s, sub) ==
    \E i \in 1..(Len(s) - Len(sub) + 1) : SubSeq(s, i, i + Len(sub) - 1) = sub

Digits == <<"0", "1", "2", "3", "4", "5", "6", "7", "8", "9">>

RECURSIVE NatToStr(_)
NatToStr(n) == IF n < 10 THEN <<Digits[n + 1]>> ELSE NatToStr(n \div 10) \o <<Digits[(n % 10) + 1]>>

\* `${n}` for an integer n
NumToStr(n) == IF n < 0 THEN <<"-">> \o NatToStr(0 - n) ELSE NatToStr(n)

\* `${v}` for a string or a number
ToStr(v) == IF v.t = "num" THEN NumToStr(v.v) ELSE v.v

(***************************************************************************)
(* JSON.parse, for texts without white space, escapes and fractions        *)
(***************************************************************************)
At(s, i) == IF i \in 1..Len(s) THEN s[i] ELSE ""

IsDigit(c) == \E d \in 1..10 : Digits[d] = c

DigitVal(c) == (CHOOSE d \in 1..10 : Digits[d] = c) - 1

ParseFail == [ok |-> FALSE, val |-> JUndefined, next |-> 0]

ParseOk(v, n) == [ok |-> TRUE, val |-> v, next |-> n]

\* a string literal that starts at s[i]
ParseString(s, i) ==
    IF At(s, i) # "\"" THEN ParseFail
    ELSE LET close == {j \in (i + 1)..Len(s) : s[j] = "\""}
         IN IF close = {} THEN ParseFail
            ELSE LET j == CHOOSE k \in close : \A l \in close : k <= l
                 IN ParseOk(JStr(SubSeq(s, i + 1, j - 1)), j + 1)

RECURSIVE ParseDigits(_, _, _)
ParseDigits(s, i, acc) ==
    IF IsDigit(At(s, i)) THEN ParseDigits(s, i + 1, acc * 10 + DigitVal(s[i]))
    ELSE ParseOk(JNum(acc), i)

ParseNumber(s, i) ==
    IF At(s, i) = "-"
    THEN IF IsDigit(At(s, i + 1))
         THEN LET r == ParseDigits(s, i + 1, 0) IN ParseOk(JNum(0 - r.val.v), r.next)
         ELSE ParseFail
    ELSE IF At(s, i) = "0" /\ IsDigit(At(s, i + 1)) THEN ParseFail
    ELSE ParseDigits(s, i, 0)

LIT_true == <<"t", "r", "u", "e">>
LIT_false == <<"f", "a", "l", "s", "e">>
LIT_null == <<"n", "u", "l", "l">>

StartsAt(s, i, lit) == SubSeq(s, i, Min(i + Len(lit) - 1, Len(s))) = lit

RECURSIVE ParseValue(_, _), ParseMembers(_, _, _), ParseElements(_, _, _)
ParseValue(s, i) ==
    CASE At(s, i) = "{" ->
            IF At(s, i + 1) = "}" THEN ParseOk(JObj(<<>>), i + 2)
            ELSE ParseMembers(s, i + 1, <<>>)
      [] At(s, i) = "[" ->
            IF At(s, i + 1) = "]" THEN ParseOk(JArr(<<>>), i + 2)
            ELSE ParseElements(s, i + 1, <<>>)
      [] At(s, i) = "\"" -> ParseString(s, i)
      [] At(s, i) = "-" \/ IsDigit(At(s, i)) -> ParseNumber(s, i)
      [] StartsAt(s, i, LIT_true) -> ParseOk(JBool(TRUE), i + Len(LIT_true))
      [] StartsAt(s, i, LIT_false) -> ParseOk(JBool(FALSE), i + Len(LIT_false))
      [] StartsAt(s, i, LIT_null) -> ParseOk(JNull, i + Len(LIT_null))
      [] OTHER -> ParseFail

\* the members of an object from s[i] on, up to and with the closing brace
ParseMembers(s, i, acc) ==
    LET k == ParseString(s, i)
    IN IF ~k.ok \/ At(s, k.next) # ":" THEN ParseFail
       ELSE LET v == ParseValue(s, k.next + 1)
            IN IF ~v.ok THEN ParseFail
               ELSE LET members == Append(acc, <<k.val.v, v.val>>)
                    IN CASE At(s, v.next) = "," -> ParseMembers(s, v.next + 1, members)
                         [] At(s, v.next) = "}" -> ParseOk(JObj(members), v.next + 1)
                         [] OTHER -> ParseFail

\* the elements of an array from s[i] on, up to and with the closing bracket
ParseElements(s, i, acc) ==
    LET v == ParseValue(s, i)
    IN IF ~v.ok THEN ParseFail
       ELSE LET elems == Append(acc, v.val)
            IN CASE At(s, v.next) = "," -> ParseElements(s, v.next + 1, elems)
                 [] At(s, v.next) = "]" -> ParseOk(JArr(elems), v.next + 1)
                 [] OTHER -> ParseFail

\* JSON.parse(s): ok is FALSE where JSON.parse throws a SyntaxError
JsonParse(s) ==
    LET r == ParseValue(s, 1)
    IN IF r.ok /\ r.next = Len(s) + 1 THEN [ok |-> TRUE, val |-> r.val]
       ELSE [ok |-> FALSE, val |-> JUndefined]

\* The literal texts of the program and of the platform it runs on
Text ==
    [ \* what the engine says when a call of the platform fails
     bodyAlreadyRead |-> <<"b", "o", "d", "y", " ", "s", "t", "r", "e", "a", "m", " ",
         "a", "l", "r", "e", "a", "d", "y", " ", "r", "e", "a", "d">>,
     unexpectedToken |-> <<"U", "n", "e", "x", "p", "e", "c", "t", "e", "d", " ", "t",
         "o", "k", "e", "n">>,
     cannotReadProperty |-> <<"C", "a", "n", "n", "o", "t", " ", "r", "e", "a", "d",
         " ", "p", "r", "o", "p", "e", "r", "t", "i", "e", "s", " ", "o", "f", " ",
         "n", "u", "l", "l">>,
     failedToFetch |-> <<"F", "a", "i", "l", "e", "d", " ", "t", "o", " ", "f", "e",
         "t", "c", "h">>,
     \* the texts of handleResponse
     textHtml |-> <<"t", "e", "x", "t", "/", "h", "t", "m", "l">>,
     serverError |-> <<"S", "e", "r", "v", "e", "r", " ", "e", "r", "r", "o", "r", ":",
         " ">>,
     http |-> <<"H", "T", "T", "P", " ">>,
     colonSpace |-> <<":", " ">>,
     space |-> <<" ">>,
     invalidJsonResponse |-> <<"I", "n", "v", "a", "l", "i", "d", " ", "J", "S", "O",
         "N", " ", "r", "e", "s", "p", "o", "n", "s", "e", ":", " ">>,
     ellipsis |-> <<".", ".", ".">>,
     \* the messages of the Dashboard, the AuthProvider and the SectorPerformance
     pleaseSelect |-> <<"P", "l", "e", "a", "s", "e", " ", "s", "e", "l", "e", "c",
         "t", " ", "a", " ", "f", "i", "l", "e", " ", "t", "o", " ", "u", "p", "l",
         "o", "a", "d">>,
     uploadFailed |-> <<"U", "p", "l", "o", "a", "d", " ", "f", "a", "i", "l", "e", "d">>,
     uploadError |-> <<"A", "n", " ", "e", "r", "r", "o", "r", " ", "o", "c", "c", "u",
         "r", "r", "e", "d", " ", "d", "u", "r", "i", "n", "g", " ", "u", "p", "l",
         "o", "a", "d">>,
     processingFailed |-> <<"P", "r", "o", "c", "e", "s", "s", "i", "n", "g", " ", "f",
         "a", "i", "l", "e", "d">>,
     processingError |-> <<"A", "n", " ", "e", "r", "r", "o", "r", " ", "o", "c", "c",
         "u", "r", "r", "e", "d", " ", "d", "u", "r", "i", "n", "g", " ", "p", "r",
         "o", "c", "e", "s", "s", "i", "n", "g">>,
     loginFailed |-> <<"L", "o", "g", "i", "n", " ", "f", "a", "i", "l", "e", "d", ".",
         " ", "P", "l", "e", "a", "s", "e", " ", "t", "r", "y", " ", "a", "g", "a",
         "i", "n", ".">>,
     registrationFailed |-> <<"R", "e", "g", "i", "s", "t", "r", "a", "t", "i", "o",
         "n", " ", "f", "a", "i", "l", "e", "d", ".", " ", "P", "l", "e", "a", "s",
         "e", " ", "t", "r", "y", " ", "a", "g", "a", "i", "n", ".">>,
     fetchFailed |-> <<"F", "a", "i", "l", "e", "d", " ", "t", "o", " ", "f", "e", "t",
         "c", "h", " ", "s", "e", "c", "t", "o", "r", " ", "d", "a", "t", "a">>,
     \* History.jsx 21
     historyFailed |-> <<"F", "a", "i", "l", "e", "d", " ", "t", "o", " ", "l", "o",
         "a", "d", " ", "h", "i", "s", "t", "o", "r", "y">>,
     \* History.jsx 24
     historyError |-> <<"A", "n", " ", "e", "r", "r", "o", "r", " ", "o", "c", "c",
         "u", "r", "r", "e", "d", " ", "w", "h", "i", "l", "e", " ", "l", "o", "a",
         "d", "i", "n", "g", " ", "h", "i", "s", "t", "o", "r", "y">>]

(***************************************************************************)
(* Promises, errors and the Response of fetch                              *)
(***************************************************************************)
JError(name, message) == [name |-> name, message |-> message]

Fulfilled(v) == [state |-> "fulfilled", value |-> v]

Rejected(e) == [state |-> "rejected", reason |-> e]

\* a promise that has not settled
Pending == [state |-> "pending"]

\* A response as fetch resolves it.  body.present is FALSE for a null body
\* (a 204, a HEAD reply); calls lists the body readers called on it so far.
Response(status, statusText, contentType, body) ==
    [status |-> status, statusText |-> statusText, contentType |-> contentType,
     body |-> body, bodyUsed |-> FALSE, calls |-> <<>>]

NoBody == [present |-> FALSE, text |-> <<>>]

Body(text) == [present |-> TRUE, text |-> text]

\* response.ok
Ok(response) == response.status \in 200..299


\* The body is read at most once: a reader called on a response whose body was
\* read rejects with a TypeError.  A null body is never "used".
ConsumeBody(response, reader) ==
    [response EXCEPT !.bodyUsed = response.body.present, !.calls = Append(@, reader)]

\* await response.text()
ResponseText(response) ==
    IF response.bodyUsed
    THEN [result |-> Rejected(JError("TypeError", Text.bodyAlreadyRead)),
          response |-> [response EXCEPT !.calls = Append(@, "text")]]
    ELSE [result |-> Fulfilled(JStr(response.body.text)),
          response |-> ConsumeBody(response, "text")]

\* how JSON.parse settles the promise of response.json()
JsonResult(p) ==
    IF p.ok THEN Fulfilled(p.val) ELSE Rejected(JError("SyntaxError", Text.unexpectedToken))

\* await response.json(): reads the whole body, then parses it
ResponseJson(response) ==
    IF response.bodyUsed
    THEN [result |-> Rejected(JError("TypeError", Text.bodyAlreadyRead)),
          response |-> [response EXCEPT !.calls = Append(@, "json")]]
    ELSE [result |-> JsonResult(JsonParse(response.body.text)),
          response |-> ConsumeBody(response, "json")]

(***************************************************************************)
(* handleResponse                                                          *)
(***************************************************************************)
K_message == <<"m", "e", "s", "s", "a", "g", "e">>
K_detail == <<"d", "e", "t", "a", "i", "l">>

SNIPPET_LEN == 100

\* response.headers.get('content-type')
ContentType(response) == response.contentType

\* IsHtml with the content type compared, not searched
IsHtmlExactly(contentType) == Truthy(contentType) /\ contentType.v = Text.textHtml

\* contentType && contentType.includes('text/html')
IsHtml(contentType) == Truthy(contentType) /\ Includes(contentType.v, Text.textHtml)

\* `Server error: ${response.status} ${response.statusText}`
ServerErrorMessage(response) ==
    Text.serverError \o NumToStr(response.status) \o Text.space \o response.statusText

\* `HTTP ${response.status}: ${response.statusText}`
HttpStatusTextMessage(response) ==
    Text.http \o NumToStr(response.status) \o Text.colonSpace \o response.statusText

\* errorData.message || errorData.detail || `HTTP ${response.status}`
ErrorDataMessage(errorData, response) ==
    ToStr(Or(Or(Get(errorData, K_message), Get(errorData, K_detail)),
             JStr(Text.http \o NumToStr(response.status))))

\* The try block of the error branch, j being the settled response.json(): it
\* always completes by a throw, of what response.json() rejected with, of the
\* TypeError of reading a property of null, or of its own Error.
TryParseError(j) ==
    IF j.result.state = "rejected" THEN j.result.reason
    ELSE IF GetThrows(j.result.value) THEN JError("TypeError", Text.cannotReadProperty)
    ELSE JError("Error", ErrorDataMessage(j.result.value, j.response))

\* The catch of the error branch has no binding: whatever the try block threw,
\* its own Error included, is replaced.
CatchParseError(thrown, response) == JError("Error", HttpStatusTextMessage(response))

\* try { errorData = await response.json(); throw ... } catch { throw ... }
ParseError(j) ==
    [result |-> Rejected(CatchParseError(TryParseError(j), j.response)),
     response |-> j.response]

\* `Invalid JSON response: ${text.substring(0, 100)}...`
InvalidJsonMessage(text) ==
    Text.invalidJsonResponse \o Substring(text, 0, SNIPPET_LEN) \o Text.ellipsis

\* The catch of the success branch, t being the settled response.text()
CatchJsonError(t) ==
    [result |-> IF t.result.state = "rejected" THEN t.result
                ELSE Rejected(JError("Error", InvalidJsonMessage(t.result.value.v))),
     response |-> t.response]

\* try { return await response.json() } catch (jsonError) { ... }
ParseBody(j) ==
    IF j.result.state = "fulfilled" THEN j ELSE CatchJsonError(ResponseText(j.response))

\* handleResponse(response): how its promise settles, and the response after it
handleResponse(response) ==
    IF ~Ok(response)
    THEN IF IsHtml(ContentType(response))
         THEN [result |-> Rejected(JError("Error", ServerErrorMessage(response))),
               response |-> response]
         ELSE ParseError(ResponseJson(response))
    ELSE ParseBody(ResponseJson(response))

(***************************************************************************)
(* The api operations: fetch, then handleResponse                          *)
(***************************************************************************)
\* what the network does with a request: a response, or no response at all
Reply(response) == [kind |-> "response", response |-> response]

NetworkFailure == [kind |-> "failure", response |-> Response(0, <<>>, JNull, NoBody)]

\* try { const response = await fetch(...); return await handleResponse(response) }
\* catch (error) { console.error(...); throw error }
ApiCall(reply) ==
    IF reply.kind = "failure" THEN Rejected(JError("TypeError", Text.failedToFetch))
    ELSE handleResponse(reply.response).result

API_URL == <<"h", "t", "t", "p", ":", "/", "/", "l", "o", "c", "a", "l", "h", "o", "s",
    "t", ":", "8", "0", "0", "0">>
CHART_IFRAME == <<"/", "c", "h", "a", "r", "t", "-", "i", "f", "r", "a", "m", "e">>
UPLOAD_ID_QUERY == <<"?", "u", "p", "l", "o", "a", "d", "_", "i", "d", "=">>
EXPORT_SIGNALS == <<"/", "e", "x", "p", "o", "r", "t", "-", "s", "i", "g", "n", "a",
    "l", "s">>

\* getChartIframe without its uploadId
getChartIframeBare(uploadId) == API_URL \o CHART_IFRAME

\* api.getChartIframe(uploadId = null)
getChartIframe(uploadId) ==
    IF Truthy(uploadId) THEN API_URL \o CHART_IFRAME \o UPLOAD_ID_QUERY \o ToStr(uploadId)
    ELSE API_URL \o CHART_IFRAME

\* api.exportSignals()
exportSignals == API_URL \o EXPORT_SIGNALS

\* The texts the server sends and the user enters, in the samples below
Sample ==
    [ \* content types
     \* application/json
     json |-> <<"a", "p", "p", "l", "i", "c", "a", "t", "i", "o", "n", "/", "j", "s",
         "o", "n">>,
     \* text/html
     html |-> <<"t", "e", "x", "t", "/", "h", "t", "m", "l">>,
     \* text/html; charset=utf-8
     htmlUtf8 |-> <<"t", "e", "x", "t", "/", "h", "t", "m", "l", ";", " ", "c", "h",
         "a", "r", "s", "e", "t", "=", "u", "t", "f", "-", "8">>,
     \* text/plain
     plain |-> <<"t", "e", "x", "t", "/", "p", "l", "a", "i", "n">>,
     \* status texts
     \* OK
     ok |-> <<"O", "K">>,
     \* No Content
     noContent |-> <<"N", "o", " ", "C", "o", "n", "t", "e", "n", "t">>,
     \* Bad Request
     badRequest |-> <<"B", "a", "d", " ", "R", "e", "q", "u", "e", "s", "t">>,
     \* Internal Server Error
     serverError |-> <<"I", "n", "t", "e", "r", "n", "a", "l", " ", "S", "e", "r", "v",
         "e", "r", " ", "E", "r", "r", "o", "r">>,
     \* bodies
     \* {"success":true}
     success |-> <<"{", "\"", "s", "u", "c", "c", "e", "s", "s", "\"", ":", "t", "r",
         "u", "e", "}">>,
     \* {"success":false}
     notSuccess |-> <<"{", "\"", "s", "u", "c", "c", "e", "s", "s", "\"", ":", "f",
         "a", "l", "s", "e", "}">>,
     \* {"message":"Bad file","detail":"Row 3"}
     messageDetail |-> <<"{", "\"", "m", "e", "s", "s", "a", "g", "e", "\"", ":", "\"",
         "B", "a", "d", " ", "f", "i", "l", "e", "\"", ",", "\"", "d", "e", "t", "a",
         "i", "l", "\"", ":", "\"", "R", "o", "w", " ", "3", "\"", "}">>,
     \* {"detail":"Not found"}
     detail |-> <<"{", "\"", "d", "e", "t", "a", "i", "l", "\"", ":", "\"", "N", "o",
         "t", " ", "f", "o", "u", "n", "d", "\"", "}">>,
     \* {"message":"","detail":"Not found"}
     emptyMessage |-> <<"{", "\"", "m", "e", "s", "s", "a", "g", "e", "\"", ":", "\"",
         "\"", ",", "\"", "d", "e", "t", "a", "i", "l", "\"", ":", "\"", "N", "o", "t",
         " ", "f", "o", "u", "n", "d", "\"", "}">>,
     \* {}
     emptyObject |-> <<"{", "}">>,
     \* null
     null |-> <<"n", "u", "l", "l">>,
     \* <html>Oops</html>
     page |-> <<"<", "h", "t", "m", "l", ">", "O", "o", "p", "s", "<", "/", "h", "t",
         "m", "l", ">">>,
     \* {"success":tr
     cut |-> <<"{", "\"", "s", "u", "c", "c", "e", "s", "s", "\"", ":", "t", "r">>,
     \* file names, and the bodies of /upload-csv, /process-csv, /results, /signals
     \* trades.csv
     trades |-> <<"t", "r", "a", "d", "e", "s", ".", "c", "s", "v">>,
     \* other.csv
     other |-> <<"o", "t", "h", "e", "r", ".", "c", "s", "v">>,
     \* {"success":false,"message":"Bad CSV"}
     badCsv |-> <<"{", "\"", "s", "u", "c", "c", "e", "s", "s", "\"", ":", "f", "a",
         "l", "s", "e", ",", "\"", "m", "e", "s", "s", "a", "g", "e", "\"", ":", "\"",
         "B", "a", "d", " ", "C", "S", "V", "\"", "}">>,
     \* {"success":false,"error":"No data"}
     noData |-> <<"{", "\"", "s", "u", "c", "c", "e", "s", "s", "\"", ":", "f", "a",
         "l", "s", "e", ",", "\"", "e", "r", "r", "o", "r", "\"", ":", "\"", "N", "o",
         " ", "d", "a", "t", "a", "\"", "}">>,
     \* {"total_signals":
     resultsOf |-> <<"{", "\"", "t", "o", "t", "a", "l", "_", "s", "i", "g", "n", "a",
         "l", "s", "\"", ":">>,
     \* [{"type":"LONG","run":
     signalsOf |-> <<"[", "{", "\"", "t", "y", "p", "e", "\"", ":", "\"", "L", "O",
         "N", "G", "\"", ",", "\"", "r", "u", "n", "\"", ":">>,
     \* }
     brace |-> <<"}">>,
     \* }]
     braceBracket |-> <<"}", "]">>,
     \* user names, and the bodies of /me, /login, /register
     \* alice
     alice |-> <<"a", "l", "i", "c", "e">>,
     \* bob
     bob |-> <<"b", "o", "b">>,
     \* {"logged_in":true,"username":"
     loggedInAs |-> <<"{", "\"", "l", "o", "g", "g", "e", "d", "_", "i", "n", "\"",
         ":", "t", "r", "u", "e", ",", "\"", "u", "s", "e", "r", "n", "a", "m", "e",
         "\"", ":", "\"">>,
     \* {"logged_in":false}
     loggedOut |-> <<"{", "\"", "l", "o", "g", "g", "e", "d", "_", "i", "n", "\"", ":",
         "f", "a", "l", "s", "e", "}">>,
     \* {"success":true,"username":"
     loginAs |-> <<"{", "\"", "s", "u", "c", "c", "e", "s", "s", "\"", ":", "t", "r",
         "u", "e", ",", "\"", "u", "s", "e", "r", "n", "a", "m", "e", "\"", ":", "\"">>,
     \* {"success":false,"message":"Invalid credentials"}
     invalid |-> <<"{", "\"", "s", "u", "c", "c", "e", "s", "s", "\"", ":", "f", "a",
         "l", "s", "e", ",", "\"", "m", "e", "s", "s", "a", "g", "e", "\"", ":", "\"",
         "I", "n", "v", "a", "l", "i", "d", " ", "c", "r", "e", "d", "e", "n", "t",
         "i", "a", "l", "s", "\"", "}">>,
     \* {"success":false,"message":"Username taken"}
     taken |-> <<"{", "\"", "s", "u", "c", "c", "e", "s", "s", "\"", ":", "f", "a",
         "l", "s", "e", ",", "\"", "m", "e", "s", "s", "a", "g", "e", "\"", ":", "\"",
         "U", "s", "e", "r", "n", "a", "m", "e", " ", "t", "a", "k", "e", "n", "\"", "}">>,
     \* "}
     quoteBrace |-> <<"\"", "}">>,
     \* the bodies of /sector-performance/{period}, /sector-summary/{period}
     \* {"success":true,"data":[{"sector":"Tech","performance":
     sectorDataOf |-> <<"{", "\"", "s", "u", "c", "c", "e", "s", "s", "\"", ":", "t",
         "r", "u", "e", ",", "\"", "d", "a", "t", "a", "\"", ":", "[", "{", "\"", "s",
         "e", "c", "t", "o", "r", "\"", ":", "\"", "T", "e", "c", "h", "\"", ",", "\"",
         "p", "e", "r", "f", "o", "r", "m", "a", "n", "c", "e", "\"", ":">>,
     \* {"positive_sectors":1,"negative_sectors":0,"average_performance":
     summaryOf |-> <<"{", "\"", "p", "o", "s", "i", "t", "i", "v", "e", "_", "s", "e",
         "c", "t", "o", "r", "s", "\"", ":", "1", ",", "\"", "n", "e", "g", "a", "t",
         "i", "v", "e", "_", "s", "e", "c", "t", "o", "r", "s", "\"", ":", "0", ",",
         "\"", "a", "v", "e", "r", "a", "g", "e", "_", "p", "e", "r", "f", "o", "r",
         "m", "a", "n", "c", "e", "\"", ":">>,
     \* }]}
     bracketBraces |-> <<"}", "]", "}">>,
     \* {"success":true,"data":[{"sector":"A","performance":10},{"sector":"B","performance":-5}]}
     sectorsMixed |-> <<"{", "\"", "s", "u", "c", "c", "e", "s", "s", "\"", ":", "t",
         "r", "u", "e", ",", "\"", "d", "a", "t", "a", "\"", ":", "[", "{", "\"", "s",
         "e", "c", "t", "o", "r", "\"", ":", "\"", "A", "\"", ",", "\"", "p", "e", "r",
         "f", "o", "r", "m", "a", "n", "c", "e", "\"", ":", "1", "0", "}", ",", "{",
         "\"", "s", "e", "c", "t", "o", "r", "\"", ":", "\"", "B", "\"", ",", "\"",
         "p", "e", "r", "f", "o", "r", "m", "a", "n", "c", "e", "\"", ":", "-", "5",
         "}", "]", "}">>,
     \* {"success":true,"data":[{"sector":"A","performance":0},{"sector":"B","performance":0}]}
     sectorsZero |-> <<"{", "\"", "s", "u", "c", "c", "e", "s", "s", "\"", ":", "t",
         "r", "u", "e", ",", "\"", "d", "a", "t", "a", "\"", ":", "[", "{", "\"", "s",
         "e", "c", "t", "o", "r", "\"", ":", "\"", "A", "\"", ",", "\"", "p", "e", "r",
         "f", "o", "r", "m", "a", "n", "c", "e", "\"", ":", "0", "}", ",", "{", "\"",
         "s", "e", "c", "t", "o", "r", "\"", ":", "\"", "B", "\"", ",", "\"", "p", "e",
         "r", "f", "o", "r", "m", "a", "n", "c", "e", "\"", ":", "0", "}", "]", "}">>,
     \* {"success":true,"data":[]}
     sectorsNone |-> <<"{", "\"", "s", "u", "c", "c", "e", "s", "s", "\"", ":", "t",
         "r", "u", "e", ",", "\"", "d", "a", "t", "a", "\"", ":", "[", "]", "}">>,
     \* {"success":true,"history":[{"upload_id":"a1"},{"upload_id":"b2"}]}
     historyList |-> <<"{", "\"", "s", "u", "c", "c", "e", "s", "s", "\"", ":", "t",
         "r", "u", "e", ",", "\"", "h", "i", "s", "t", "o", "r", "y", "\"", ":", "[",
         "{", "\"", "u", "p", "l", "o", "a", "d", "_", "i", "d", "\"", ":", "\"", "a",
         "1", "\"", "}", ",", "{", "\"", "u", "p", "l", "o", "a", "d", "_", "i", "d",
         "\"", ":", "\"", "b", "2", "\"", "}", "]", "}">>,
     \* {"success":true,"entry":{"upload_id":"...
     entryOf |-> <<"{", "\"", "s", "u", "c", "c", "e", "s", "s", "\"", ":", "t", "r",
         "u", "e", ",", "\"", "e", "n", "t", "r", "y", "\"", ":", "{", "\"", "u", "p",
         "l", "o", "a", "d", "_", "i", "d", "\"", ":", "\"">>]

(***************************************************************************)
(* State                                                                   *)
(***************************************************************************)
VARIABLES
    \* the resolver alone: the response fetch resolved with, and how
    \* handleResponse settled on it (each empty or of one element)
    response, settled,
    \* Dashboard: its useState cells
    file, fileName, uploading, processing, error, results, signals, chartUrl,
    \* Dashboard: the invocations of handleUpload so far, each with the call it
    \* awaits (pc), its local resultsData and the calls that reported success
    runs,
    \* AuthProvider: its useState cells
    user, loading,
    \* AuthProvider: the calls of checkLoggedIn (by the effect that runs once,
    \* at mount), login, register and logout so far, each with what it awaits
    \* and what it returned
    calls,
    \* SectorPerformance: its useState cells
    period, sectorData, summary, sectorLoading, sectorError,
    \* SectorPerformance: the invocations of fetchData so far, each with its
    \* period, the state of its two requests and how its Promise.all settled (pc)
    fetches,
    \* the browser: the URLs window.open was called with, in order
    opened,
    \* History: its useState cells
    history, historyLoading, historyError, selectedEntry,
    \* History: the invocations of loadHistory (by the effect that runs once, at
    \* mount) and of handleViewDetails so far, each with its uploadId and
    \* whether it still awaits its request (pc), and how the request settled (result)
    views

resolverVars == <<response, settled>>

dashboardVars == <<file, fileName, uploading, processing, error, results, signals, chartUrl, runs>>

authVars == <<user, loading, calls>>

sectorVars == <<period, sectorData, summary, sectorLoading, sectorError, fetches>>

windowVars == <<opened>>

historyVars == <<history, historyLoading, historyError, selectedEntry, views>>

vars == <<resolverVars, dashboardVars, authVars, sectorVars, windowVars, historyVars>>

notResolverVars == <<dashboardVars, authVars, sectorVars, windowVars, historyVars>>

notDashboardVars == <<resolverVars, authVars, sectorVars, windowVars, historyVars>>

notAuthVars == <<resolverVars, dashboardVars, sectorVars, windowVars, historyVars>>

notSectorVars == <<resolverVars, dashboardVars, authVars, windowVars, historyVars>>

notHistoryVars == <<resolverVars, dashboardVars, authVars, sectorVars, windowVars>>

(***************************************************************************)
(* The resolver on its own: a response arrives and handleResponse runs     *)
(***************************************************************************)

\* a text that is no JSON and longer than the snippet
BODY_LONG == [i \in 1..(SNIPPET_LEN + 3) |-> "x"]

SampleStatuses ==
    {<<200, Sample.ok>>, <<204, Sample.noContent>>, <<400, Sample.badRequest>>, <<500, Sample.serverError>>}

SampleContentTypes == {JNull, JStr(Sample.json), JStr(Sample.html), JStr(Sample.htmlUtf8), JStr(Sample.plain)}

SampleBodies ==
    {NoBody} \cup
    {Body(t) : t \in {Sample.success, Sample.messageDetail, Sample.detail, Sample.emptyMessage,
                      Sample.emptyObject, Sample.null, Sample.page, Sample.cut, BODY_LONG, <<>>}}

SampleResponses ==
    {Response(st[1], st[2], ct, b) : st \in SampleStatuses, ct \in SampleContentTypes,
                                     b \in SampleBodies}

\* const response = await fetch(...): the fetch resolves
ReceiveResponse(r) ==
    /\ response = <<>>
    /\ response' = <<r>>
    /\ UNCHANGED <<settled, notResolverVars>>

\* return await handleResponse(response), run to its settlement
Settle(h) ==
    /\ settled' = <<h.result>>
    /\ response' = <<h.response>>

HandleResponse ==
    /\ response # <<>>
    /\ settled = <<>>
    /\ Settle(handleResponse(response[1]))
    /\ UNCHANGED notResolverVars

ResolverNext ==
    \/ \E r \in SampleResponses : ReceiveResponse(r)
    \/ HandleResponse

(***************************************************************************)
(* Dashboard: handleFileChange, handleUpload, handleProcess                *)
(***************************************************************************)
\* the submits the model follows
MaxRuns == 2

K_success == <<"s", "u", "c", "c", "e", "s", "s">>
K_error == <<"e", "r", "r", "o", "r">>

\* a File of the file input
File(name) == [t |-> "file", name |-> name]

\* e.target.files[0]: a file, or undefined when the dialog was cancelled
SampleFiles == {File(Sample.trades), File(Sample.other), JUndefined}

OkJson(text) == Reply(Response(200, Sample.ok, JStr(Sample.json), Body(text)))

ErrorPage == Reply(Response(500, Sample.serverError, JStr(Sample.html), Body(Sample.page)))

\* the replies of POST /upload-csv
UploadReplies ==
    {OkJson(Sample.success), OkJson(Sample.badCsv), OkJson(Sample.notSuccess),
     Reply(Response(400, Sample.badRequest, JStr(Sample.json), Body(Sample.detail))), NetworkFailure}

\* the replies of POST /process-csv
ProcessReplies ==
    {OkJson(Sample.success), OkJson(Sample.noData), OkJson(Sample.notSuccess), OkJson(Sample.null),
     ErrorPage}

\* the replies of GET /results to run r: the results name the run
ResultsReplies(r) ==
    {OkJson(Sample.resultsOf \o NumToStr(r) \o Sample.brace), OkJson(Sample.page), ErrorPage}

\* the replies of GET /signals to run r
SignalsReplies(r) ==
    {OkJson(Sample.signalsOf \o NumToStr(r) \o Sample.braceBracket), ErrorPage, NetworkFailure}

\* disabled={uploading || processing} of the file input
FileInputDisabled == uploading \/ processing

\* SubmitDisabled without the flags of the run in flight
SubmitDisabledWithoutFile == ~Truthy(file)

\* disabled={!file || uploading || processing} of the submit button
SubmitDisabled == ~Truthy(file) \/ uploading \/ processing

\* onChange of the file input
handleFileChange(selectedFile) ==
    /\ IF Truthy(selectedFile)
       THEN /\ file' = selectedFile
            /\ fileName' = JStr(selectedFile.name)
       ELSE UNCHANGED <<file, fileName>>
    /\ UNCHANGED <<uploading, processing, error, results, signals, chartUrl, runs>>

FileChange(selectedFile) ==
    /\ ~FileInputDisabled
    /\ handleFileChange(selectedFile)
    /\ UNCHANGED notDashboardVars

\* handleUpload without its test of file
handleUploadUnchecked ==
    /\ Len(runs) < MaxRuns
    /\ error' = JStr(<<>>)
    /\ uploading' = TRUE
    /\ runs' = Append(runs, [pc |-> "uploadCSV", resultsData |-> JUndefined,
                             passed |-> {}])
    /\ UNCHANGED <<file, fileName, processing, results, signals, chartUrl>>

\* handleUpload up to its first await
handleUpload ==
    IF ~Truthy(file)
    THEN /\ error' = JStr(Text.pleaseSelect)
         /\ UNCHANGED <<file, fileName, uploading, processing, results, signals, chartUrl,
                        runs>>
    ELSE /\ Len(runs) < MaxRuns
         /\ error' = JStr(<<>>)
         /\ uploading' = TRUE
         /\ runs' = Append(runs, [pc |-> "uploadCSV", resultsData |-> JUndefined,
                                  passed |-> {}])
         /\ UNCHANGED <<file, fileName, processing, results, signals, chartUrl>>

\* onSubmit of the form, by its submit button
Submit ==
    /\ ~SubmitDisabled
    /\ handleUpload
    /\ UNCHANGED notDashboardVars

\* onSubmit of the form by a submit event that does not come from the button
\* (form.requestSubmit(), an event a script or a test dispatches): the disabled
\* attribute of the button does not hold it back
SubmitEvent ==
    /\ handleUpload
    /\ UNCHANGED notDashboardVars

\* the exports the model follows
MaxExports == 2

\* handleExport with a reset of the results
handleExportResets ==
    /\ opened' = Append(opened, exportSignals)
    /\ results' = JNull
    /\ UNCHANGED <<file, fileName, uploading, processing, error, signals, chartUrl, runs>>

\* onClick of the export button
handleExport ==
    /\ opened' = Append(opened, exportSignals)
    /\ UNCHANGED dashboardVars

\* {results && ( ... <button onClick={handleExport}> ... )}
ExportShown == Truthy(results)

Export ==
    /\ ExportShown
    /\ Len(opened) < MaxExports
    /\ handleExport
    /\ UNCHANGED <<resolverVars, authVars, sectorVars, historyVars>>

\* run r moves on to await the call next, op having reported success
Await(r, op, next) ==
    [runs EXCEPT ![r].pc = next, ![r].passed = @ \cup {op}]

\* run r has returned
Return(r) == [runs EXCEPT ![r].pc = "done", ![r].resultsData = JUndefined]

\* a promise whose value the handler cannot read .success from throws as well
Threw(p) == p.state = "rejected" \/ GetThrows(p.value)

\* AfterUploadCSV without the test of result.success
AfterUploadCSVUngated(r, result) ==
    /\ IF Threw(result)
       THEN /\ error' = JStr(Text.uploadError)
            /\ uploading' = FALSE
            /\ runs' = Return(r)
            /\ UNCHANGED processing
       ELSE /\ processing' = TRUE
            /\ error' = JStr(<<>>)
            /\ runs' = Await(r, "uploadCSV", "processCSV")
            /\ UNCHANGED uploading
    /\ UNCHANGED <<file, fileName, results, signals, chartUrl, notDashboardVars>>

\* The rest of handleUpload once api.uploadCSV(file) has settled, with
\* handleProcess up to its first await
AfterUploadCSV(r, result) ==
    /\ IF Threw(result)
       THEN /\ error' = JStr(Text.uploadError)
            /\ uploading' = FALSE
            /\ runs' = Return(r)
            /\ UNCHANGED processing
       ELSE IF Truthy(Get(result.value, K_success))
       THEN /\ processing' = TRUE
            /\ error' = JStr(<<>>)
            /\ runs' = Await(r, "uploadCSV", "processCSV")
            /\ UNCHANGED uploading
       ELSE /\ error' = Or(Get(result.value, K_message), JStr(Text.uploadFailed))
            /\ uploading' = FALSE
            /\ runs' = Return(r)
            /\ UNCHANGED processing
    /\ UNCHANGED <<file, fileName, results, signals, chartUrl, notDashboardVars>>

\* await api.uploadCSV(file) settles
UploadCSVSettles(r, reply) ==
    /\ runs[r].pc = "uploadCSV"
    /\ AfterUploadCSV(r, ApiCall(reply))

\* ProcessThrew that starts the run over
ProcessThrewRetries(r) ==
    /\ error' = JStr(Text.processingError)
    /\ processing' = FALSE
    /\ runs' = [runs EXCEPT ![r].pc = "uploadCSV", ![r].resultsData = JUndefined]
    /\ UNCHANGED <<file, fileName, uploading, results, signals, chartUrl, notDashboardVars>>

\* catch and finally of handleProcess, then finally of handleUpload
ProcessThrew(r) ==
    /\ error' = JStr(Text.processingError)
    /\ processing' = FALSE
    /\ uploading' = FALSE
    /\ runs' = Return(r)
    /\ UNCHANGED <<file, fileName, results, signals, chartUrl, notDashboardVars>>

AfterProcessCSV(r, result) ==
    IF Threw(result) THEN ProcessThrew(r)
    ELSE IF Truthy(Get(result.value, K_success))
    THEN /\ runs' = Await(r, "processCSV", "getResults")
         /\ UNCHANGED <<file, fileName, uploading, processing, error, results, signals,
                        chartUrl, notDashboardVars>>
    ELSE /\ error' = Or(Get(result.value, K_error), JStr(Text.processingFailed))
         /\ processing' = FALSE
         /\ uploading' = FALSE
         /\ runs' = Return(r)
         /\ UNCHANGED <<file, fileName, results, signals, chartUrl, notDashboardVars>>

\* await api.processCSV() settles
ProcessCSVSettles(r, reply) ==
    /\ runs[r].pc = "processCSV"
    /\ AfterProcessCSV(r, ApiCall(reply))

\* AfterGetResults with setResults as soon as the results are there
AfterGetResultsStores(r, resultsData) ==
    IF resultsData.state = "rejected" THEN ProcessThrew(r)
    ELSE /\ runs' = [Await(r, "getResults", "getSignals")
                        EXCEPT ![r].resultsData = resultsData.value]
         /\ results' = resultsData.value
         /\ UNCHANGED <<file, fileName, uploading, processing, error, signals,
                        chartUrl, notDashboardVars>>

AfterGetResults(r, resultsData) ==
    IF resultsData.state = "rejected" THEN ProcessThrew(r)
    ELSE /\ runs' = [Await(r, "getResults", "getSignals")
                        EXCEPT ![r].resultsData = resultsData.value]
         /\ UNCHANGED <<file, fileName, uploading, processing, error, results, signals,
                        chartUrl, notDashboardVars>>

\* await api.getResults() settles
GetResultsSettles(r, reply) ==
    /\ runs[r].pc = "getResults"
    /\ AfterGetResults(r, ApiCall(reply))

\* AfterGetSignals in a handleUpload that resets uploading in its catch only
AfterGetSignalsKeepsUploading(r, signalsData) ==
    IF signalsData.state = "rejected" THEN ProcessThrew(r)
    ELSE /\ results' = runs[r].resultsData
         /\ signals' = signalsData.value
         /\ chartUrl' = JStr(getChartIframe(JNull))
         /\ processing' = FALSE
         /\ runs' = [Await(r, "getSignals", "done") EXCEPT ![r].resultsData = JUndefined]
         /\ UNCHANGED <<file, fileName, uploading, error, notDashboardVars>>

AfterGetSignals(r, signalsData) ==
    IF signalsData.state = "rejected" THEN ProcessThrew(r)
    ELSE /\ results' = runs[r].resultsData
         /\ signals' = signalsData.value
         /\ chartUrl' = JStr(getChartIframe(JNull))
         /\ processing' = FALSE
         /\ uploading' = FALSE
         /\ runs' = [Await(r, "getSignals", "done") EXCEPT ![r].resultsData = JUndefined]
         /\ UNCHANGED <<file, fileName, error, notDashboardVars>>

\* await api.getSignals() settles
GetSignalsSettles(r, reply) ==
    /\ runs[r].pc = "getSignals"
    /\ AfterGetSignals(r, ApiCall(reply))

DashboardNext ==
    \/ \E f \in SampleFiles : FileChange(f)
    \/ Submit
    \/ \E r \in 1..Len(runs), reply \in UploadReplies : UploadCSVSettles(r, reply)
    \/ \E r \in 1..Len(runs), reply \in ProcessReplies : ProcessCSVSettles(r, reply)
    \/ \E r \in 1..Len(runs) : \E reply \in ResultsReplies(r) : GetResultsSettles(r, reply)
    \/ \E r \in 1..Len(runs) : \E reply \in SignalsReplies(r) : GetSignalsSettles(r, reply)
    \/ Export

(***************************************************************************)
(* AuthProvider: checkLoggedIn, login, register, logout                    *)
(***************************************************************************)
\* the calls of login, register and logout the model follows
MaxCalls == 2

K_logged_in == <<"l", "o", "g", "g", "e", "d", "_", "i", "n">>
K_username == <<"u", "s", "e", "r", "n", "a", "m", "e">>

SampleUsernames == {Sample.alice, Sample.bob}

\* the replies of GET /me
GetUserReplies ==
    {OkJson(Sample.loggedInAs \o u \o Sample.quoteBrace) : u \in SampleUsernames} \cup
    {OkJson(Sample.loggedOut), OkJson(Sample.null), ErrorPage, NetworkFailure}

\* the replies of POST /login for username
LoginReplies(username) ==
    {OkJson(Sample.loginAs \o username \o Sample.quoteBrace), OkJson(Sample.invalid),
     Reply(Response(400, Sample.badRequest, JStr(Sample.json), Body(Sample.messageDetail))), NetworkFailure}

\* the replies of POST /register
RegisterReplies == {OkJson(Sample.success), OkJson(Sample.taken), ErrorPage}

\* the replies of POST /logout
LogoutReplies == {OkJson(Sample.success), ErrorPage, NetworkFailure}

Call(op, username) ==
    [op |-> op, username |-> username, pc |-> "await", data |-> Pending,
     returned |-> JUndefined]

\* call c has returned v
Returned(c, data, v) ==
    [calls EXCEPT ![c].pc = "done", ![c].data = data, ![c].returned = v]

\* useEffect(() => { checkLoggedIn() }, []): checkLoggedIn up to its await
Mount ==
    /\ calls = <<>>
    /\ calls' = Append(calls, Call("checkLoggedIn", <<>>))
    /\ UNCHANGED <<user, loading, notAuthVars>>

\* AfterGetUser with setLoading(false) at the end of the try, not in a finally
AfterGetUserLoadingInTry(c, data) ==
    /\ IF ~Threw(data) /\ Truthy(Get(data.value, K_logged_in))
       THEN user' = Get(data.value, K_username)
       ELSE UNCHANGED user
    /\ loading' = IF Threw(data) THEN loading ELSE FALSE
    /\ calls' = Returned(c, data, JUndefined)
    /\ UNCHANGED notAuthVars

\* The rest of checkLoggedIn once api.getUser() has settled
AfterGetUser(c, data) ==
    /\ IF ~Threw(data) /\ Truthy(Get(data.value, K_logged_in))
       THEN user' = Get(data.value, K_username)
       ELSE UNCHANGED user
    /\ loading' = FALSE
    /\ calls' = Returned(c, data, JUndefined)
    /\ UNCHANGED notAuthVars

\* await api.getUser() settles
GetUserSettles(c, reply) ==
    /\ calls[c].op = "checkLoggedIn"
    /\ calls[c].pc = "await"
    /\ AfterGetUser(c, ApiCall(reply))

\* Invoke with setLoading(true) at the start of the call
InvokeLoading(op, username) ==
    /\ calls # <<>>
    /\ Len(calls) <= MaxCalls
    /\ calls' = Append(calls, Call(op, username))
    /\ loading' = TRUE
    /\ UNCHANGED <<user, notAuthVars>>

\* a call of login, register or logout by a component, up to its await
Invoke(op, username) ==
    /\ calls # <<>>
    /\ Len(calls) <= MaxCalls
    /\ calls' = Append(calls, Call(op, username))
    /\ UNCHANGED <<user, loading, notAuthVars>>

\* login(username, password) up to its await
Login(username) ==
    /\ Invoke("login", username)

\* register(username, password) up to its await
Register(username) ==
    /\ Invoke("register", username)

\* The Logout button of the Navbar is rendered for a user only: handleLogout,
\* logout() up to its await
Logout ==
    /\ Truthy(user)
    /\ Invoke("logout", <<>>)

SuccessTrue == JObj(<<<<K_success, JBool(TRUE)>>>>)

Failure(message) == JObj(<<<<K_success, JBool(FALSE)>>, <<K_message, message>>>>)

\* The rest of login once api.login(username, password) has settled
AfterLogin(c, data) ==
    /\ IF Threw(data)
       THEN /\ calls' = Returned(c, data, Failure(JStr(Text.loginFailed)))
            /\ UNCHANGED user
       ELSE IF Truthy(Get(data.value, K_success))
       THEN /\ user' = Get(data.value, K_username)
            /\ calls' = Returned(c, data, SuccessTrue)
       ELSE /\ calls' = Returned(c, data, Failure(Get(data.value, K_message)))
            /\ UNCHANGED user
    /\ UNCHANGED <<loading, notAuthVars>>

\* await api.login(username, password) settles
LoginSettles(c, reply) ==
    /\ calls[c].op = "login"
    /\ calls[c].pc = "await"
    /\ AfterLogin(c, ApiCall(reply))

\* AfterRegister that logs the new user in on success
AfterRegisterLogsIn(c, data) ==
    /\ calls' = Returned(c, data, IF data.state = "rejected"
                                  THEN Failure(JStr(Text.registrationFailed))
                                  ELSE data.value)
    /\ user' = IF ~Threw(data) /\ Truthy(Get(data.value, K_success))
               THEN JStr(calls[c].username) ELSE user
    /\ UNCHANGED <<loading, notAuthVars>>

\* The rest of register once api.register(username, password) has settled
AfterRegister(c, data) ==
    /\ calls' = Returned(c, data, IF data.state = "rejected" THEN Failure(JStr(Text.registrationFailed))
                            ELSE data.value)
    /\ UNCHANGED <<user, loading, notAuthVars>>

\* await api.register(username, password) settles
RegisterSettles(c, reply) ==
    /\ calls[c].op = "register"
    /\ calls[c].pc = "await"
    /\ AfterRegister(c, ApiCall(reply))

\* The rest of logout once api.logout() has settled; handleLogout then navigates
AfterLogout(c, data) ==
    /\ IF data.state = "rejected"
       THEN /\ calls' = Returned(c, data, JBool(FALSE))
            /\ UNCHANGED user
       ELSE /\ user' = JNull
            /\ calls' = Returned(c, data, JBool(TRUE))
    /\ UNCHANGED <<loading, notAuthVars>>

\* await api.logout() settles
LogoutSettles(c, reply) ==
    /\ calls[c].op = "logout"
    /\ calls[c].pc = "await"
    /\ AfterLogout(c, ApiCall(reply))

AuthNext ==
    \/ Mount
    \/ \E c \in 1..Len(calls), reply \in GetUserReplies : GetUserSettles(c, reply)
    \/ \E u \in SampleUsernames : Login(u)
    \/ \E c \in 1..Len(calls) : \E reply \in LoginReplies(calls[c].username) :
          LoginSettles(c, reply)
    \/ \E u \in SampleUsernames : Register(u)
    \/ \E c \in 1..Len(calls), reply \in RegisterReplies : RegisterSettles(c, reply)
    \/ Logout
    \/ \E c \in 1..Len(calls), reply \in LogoutReplies : LogoutSettles(c, reply)

(***************************************************************************)
(* SectorPerformance: fetchData, handlePeriodChange                        *)
(***************************************************************************)
\* the invocations of fetchData the model follows
MaxFetches == 3

K_data == <<"d", "a", "t", "a">>

PERIOD_1D == <<"1", "d">>
PERIOD_7D == <<"7", "d">>
PERIOD_30D == <<"3", "0", "d">>

\* the options of the period selector the model selects
SamplePeriods == {PERIOD_1D, PERIOD_7D, PERIOD_30D}

\* The server's figures for a period differ from period to period: here the
\* performance over 1d is 1, over 7d is 7, over 30d is 30.
FigureOf(p) == SubSeq(p, 1, Len(p) - 1)

\* the replies of GET /sector-performance/{period}
SectorDataReplies(p) ==
    {OkJson(Sample.sectorDataOf \o FigureOf(p) \o Sample.bracketBraces), OkJson(Sample.notSuccess),
     OkJson(Sample.sectorsMixed), OkJson(Sample.sectorsZero), OkJson(Sample.sectorsNone),
     NetworkFailure}

\* the replies of GET /sector-summary/{period}
SectorSummaryReplies(p) ==
    {OkJson(Sample.summaryOf \o FigureOf(p) \o Sample.brace), OkJson(Sample.null), ErrorPage}

\* a settled promise whose value nothing reads any more
Dropped == [state |-> "dropped"]

\* fetchData(selectedPeriod) up to its await of Promise.all
fetchData(selectedPeriod) ==
    /\ Len(fetches) < MaxFetches
    /\ sectorLoading' = TRUE
    /\ sectorError' = JStr(<<>>)
    /\ fetches' = Append(fetches, [period |-> selectedPeriod, pc |-> "await",
                                   data |-> Pending, summary |-> Pending])
    /\ UNCHANGED <<sectorData, summary>>

\* useEffect(() => { fetchData(period) }, [period]) at mount
MountSector ==
    /\ fetches = <<>>
    /\ fetchData(period.v)
    /\ UNCHANGED <<period, notSectorVars>>

\* onChange of the period selector, and the effect of the changed period
handlePeriodChange(value) ==
    /\ fetches # <<>>
    /\ value # period.v
    /\ period' = JStr(value)
    /\ fetchData(value)
    /\ UNCHANGED notSectorVars

\* Promise.all of fetchData i has fulfilled, and fetchData has returned
Fetched(i) ==
    [fetches EXCEPT ![i].pc = "fulfilled", ![i].data = Dropped, ![i].summary = Dropped]

\* catch and finally of fetchData: Promise.all rejected, or the try block threw
FetchThrew(i) ==
    /\ sectorError' = JStr(Text.fetchFailed)
    /\ sectorLoading' = FALSE
    /\ UNCHANGED <<sectorData, summary>>

\* The rest of fetchData once Promise.all has fulfilled
AfterAll(i, dataResponse, summaryResponse) ==
    IF GetThrows(dataResponse) THEN FetchThrew(i)
    ELSE /\ IF Truthy(Get(dataResponse, K_success))
            THEN sectorData' = Get(dataResponse, K_data)
            ELSE UNCHANGED sectorData
         /\ IF Truthy(summaryResponse)
            THEN summary' = summaryResponse
            ELSE UNCHANGED summary
         /\ sectorLoading' = FALSE
         /\ UNCHANGED sectorError

\* Promise.all([data, summary]) of fetchData i, when one of the two settles:
\* it rejects with the first rejection and fulfils when both have fulfilled
AfterSettled(i, data, summaryP) ==
    /\ IF fetches[i].pc # "await"
       THEN /\ fetches' = [fetches EXCEPT ![i].data = IF data = Pending THEN Pending ELSE Dropped,
                                          ![i].summary = IF summaryP = Pending THEN Pending
                                                         ELSE Dropped]
            /\ UNCHANGED <<sectorData, summary, sectorLoading, sectorError>>
       ELSE IF data.state = "rejected" \/ summaryP.state = "rejected"
       THEN /\ FetchThrew(i)
            /\ fetches' = [fetches EXCEPT ![i].pc = "rejected",
                                          ![i].data = IF data = Pending THEN Pending ELSE Dropped,
                                          ![i].summary = IF summaryP = Pending THEN Pending
                                                         ELSE Dropped]
       ELSE IF data.state = "fulfilled" /\ summaryP.state = "fulfilled"
       THEN /\ AfterAll(i, data.value, summaryP.value)
            /\ fetches' = Fetched(i)
       ELSE /\ fetches' = [fetches EXCEPT ![i].data = data, ![i].summary = summaryP]
            /\ UNCHANGED <<sectorData, summary, sectorLoading, sectorError>>
    /\ UNCHANGED <<period, notSectorVars>>

\* sectorApi.fetchSectorData(selectedPeriod) of fetchData i settles
FetchSectorDataSettles(i, reply) ==
    /\ fetches[i].data = Pending
    /\ AfterSettled(i, ApiCall(reply), fetches[i].summary)

\* sectorApi.fetchSectorSummary(selectedPeriod) of fetchData i settles
FetchSectorSummarySettles(i, reply) ==
    /\ fetches[i].summary = Pending
    /\ AfterSettled(i, fetches[i].data, ApiCall(reply))

SectorNext ==
    \/ MountSector
    \/ \E p \in SamplePeriods : handlePeriodChange(p)
    \/ \E i \in 1..Len(fetches) : \E reply \in SectorDataReplies(fetches[i].period) :
          FetchSectorDataSettles(i, reply)
    \/ \E i \in 1..Len(fetches) : \E reply \in SectorSummaryReplies(fetches[i].period) :
          FetchSectorSummarySettles(i, reply)

(***************************************************************************)
(* SectorPerformance: the bars it renders                                  *)
(***************************************************************************)
K_performance == <<"p", "e", "r", "f", "o", "r", "m", "a", "n", "c", "e">>

\* Math.abs
Abs(x) == IF x < 0 THEN 0 - x ELSE x

\* the number n / d of a division by d # 0
Quotient(n, d) == [t |-> "num", n |-> n, d |-> d]

\* 0 / 0, and what Math.min makes of it
NaN == [t |-> "NaN"]

\* sectorData.length > 0 ? Math.max(...sectorData.map(item => Math.abs(item.performance))) : 5
maxPerformance ==
    IF Len(sectorData.v) > 0
    THEN CHOOSE m \in {Abs(Get(sectorData.v[i], K_performance).v) : i \in 1..Len(sectorData.v)} :
            \A i \in 1..Len(sectorData.v) : m >= Abs(Get(sectorData.v[i], K_performance).v)
    ELSE 5

\* Math.min(Math.abs(sector.performance) / maxPerformance * 100, 100), the
\* percentage of the width of the bar: x / 0 is Infinity for x > 0 and NaN for 0
barWidth(sector) ==
    IF maxPerformance = 0
    THEN IF Abs(Get(sector, K_performance).v) = 0 THEN NaN ELSE Quotient(100, 1)
    ELSE IF Abs(Get(sector, K_performance).v) * 100 > 100 * maxPerformance
    THEN Quotient(100, 1)
    ELSE Quotient(Abs(Get(sector, K_performance).v) * 100, maxPerformance)

\* marginLeft: sector.performance < 0 ? 'auto' : '0'
marginLeft(sector) == IF Get(sector, K_performance).v < 0 THEN "auto" ELSE "0"

(***************************************************************************)
(* History: loadHistory, handleViewDetails                                 *)
(***************************************************************************)
\* the invocations of loadHistory and handleViewDetails the model follows
MaxViews == 3

\* the members read of the replies: result.history, result.entry,
\* entry.upload_id
HistoryKey ==
    [history |-> <<"h", "i", "s", "t", "o", "r", "y">>,
     entry |-> <<"e", "n", "t", "r", "y">>,
     upload_id |-> <<"u", "p", "l", "o", "a", "d", "_", "i", "d">>]

\* the replies of GET /history
HistoryReplies == {OkJson(Sample.historyList), OkJson(Sample.notSuccess), ErrorPage}

\* the replies of GET /history/{uploadId}: the entry sent names the uploadId
HistoryDetailReplies(uploadId) ==
    {OkJson(Sample.entryOf \o uploadId.v \o Sample.quoteBrace \o Sample.brace),
     OkJson(Sample.notSuccess), NetworkFailure}

\* useEffect(() => { loadHistory() }, []): loadHistory up to its await
loadHistory ==
    /\ views = <<>>
    /\ historyLoading' = TRUE
    /\ views' = Append(views, [op |-> "loadHistory", uploadId |-> JUndefined, pc |-> "await",
                               result |-> Pending])
    /\ UNCHANGED <<history, historyError, selectedEntry, notHistoryVars>>

\* The rest of loadHistory once api.getHistory() has settled
AfterGetHistory(v, result) ==
    /\ IF Threw(result)
       THEN /\ historyError' = JStr(Text.historyError)
            /\ UNCHANGED history
       ELSE IF Truthy(Get(result.value, K_success))
       THEN /\ history' = Get(result.value, HistoryKey.history)
            /\ UNCHANGED historyError
       ELSE /\ historyError' = JStr(Text.historyFailed)
            /\ UNCHANGED history
    /\ historyLoading' = FALSE
    /\ views' = [views EXCEPT ![v].pc = "done", ![v].result = result]
    /\ UNCHANGED <<selectedEntry, notHistoryVars>>

\* await api.getHistory() settles
GetHistorySettles(v, reply) ==
    /\ views[v].op = "loadHistory"
    /\ views[v].pc = "await"
    /\ AfterGetHistory(v, ApiCall(reply))

\* handleViewDetails(uploadId) up to its await
handleViewDetails(uploadId) ==
    /\ Len(views) <= MaxViews
    /\ views' = Append(views, [op |-> "handleViewDetails", uploadId |-> uploadId,
                               pc |-> "await", result |-> Pending])
    /\ UNCHANGED <<history, historyLoading, historyError, selectedEntry, notHistoryVars>>

\* onClick of the Details button of a row: the page renders the table once
\* loading is false, with a row for each entry of history
ViewDetails(row) ==
    /\ ~historyLoading
    /\ history.t = "arr"
    /\ row \in 1..Len(history.v)
    /\ handleViewDetails(Get(history.v[row], HistoryKey.upload_id))

\* The rest of handleViewDetails once api.getHistoryDetail(uploadId) has settled
AfterGetHistoryDetail(v, result) ==
    /\ IF ~Threw(result) /\ Truthy(Get(result.value, K_success))
       THEN selectedEntry' = Get(result.value, HistoryKey.entry)
       ELSE UNCHANGED selectedEntry
    /\ views' = [views EXCEPT ![v].pc = "done", ![v].result = result]
    /\ UNCHANGED <<history, historyLoading, historyError, notHistoryVars>>

\* await api.getHistoryDetail(uploadId) settles
GetHistoryDetailSettles(v, reply) ==
    /\ views[v].op = "handleViewDetails"
    /\ views[v].pc = "await"
    /\ AfterGetHistoryDetail(v, ApiCall(reply))

HistoryNext ==
    \/ loadHistory
    \/ \E v \in 1..Len(views), reply \in HistoryReplies : GetHistorySettles(v, reply)
    \/ \E row \in (IF history.t = "arr" THEN 1..Len(history.v) ELSE {}) : ViewDetails(row)
    \/ \E v \in {w \in 1..Len(views) : views[w].op = "handleViewDetails"} :
          \E reply \in HistoryDetailReplies(views[v].uploadId) :
             GetHistoryDetailSettles(v, reply)

(***************************************************************************)
(* Specifications                                                          *)
(***************************************************************************)
Init ==
    /\ response = <<>>
    /\ settled = <<>>
    /\ file = JNull
    /\ fileName = JStr(<<>>)
    /\ uploading = FALSE
    /\ processing = FALSE
    /\ error = JStr(<<>>)
    /\ results = JNull
    /\ signals = JNull
    /\ chartUrl = JStr(<<>>)
    /\ runs = <<>>
    /\ user = JNull
    /\ loading = TRUE
    /\ calls = <<>>
    /\ period = JStr(PERIOD_1D)
    /\ sectorData = JArr(<<>>)
    /\ summary = JNull
    /\ sectorLoading = FALSE
    /\ sectorError = JStr(<<>>)
    /\ fetches = <<>>
    /\ opened = <<>>
    /\ history = JArr(<<>>)
    /\ historyLoading = TRUE
    /\ historyError = JStr(<<>>)
    /\ selectedEntry = JNull
    /\ views = <<>>

Next == ResolverNext

Spec == Init /\ [][Next]_vars

DashboardSpec == Init /\ [][DashboardNext]_vars

\* the Dashboard with submit events that do not come from the button
DashboardEventNext ==
    \/ DashboardNext
    \/ SubmitEvent

DashboardEventSpec == Init /\ [][DashboardEventNext]_vars

\* The Dashboard when every call of the api settles: fetch resolves or rejects,
\* and the handler's continuation then runs
DashboardFairSpec ==
    /\ DashboardSpec
    /\ WF_vars(\E r \in 1..Len(runs), reply \in UploadReplies : UploadCSVSettles(r, reply))
    /\ WF_vars(\E r \in 1..Len(runs), reply \in ProcessReplies : ProcessCSVSettles(r, reply))
    /\ WF_vars(\E r \in 1..Len(runs) : \E reply \in ResultsReplies(r) : GetResultsSettles(r, reply))
    /\ WF_vars(\E r \in 1..Len(runs) : \E reply \in SignalsReplies(r) : GetSignalsSettles(r, reply))

AuthSpec == Init /\ [][AuthNext]_vars

\* The effect of the mount runs after the first render, and api.getUser()
\* settles: the fetch resolves or rejects, handleResponse returns or throws.
AuthFairSpec ==
    /\ AuthSpec
    /\ WF_vars(Mount)
    /\ WF_vars(\E c \in 1..Len(calls), reply \in GetUserReplies : GetUserSettles(c, reply))

SectorSpec == Init /\ [][SectorNext]_vars

HistorySpec == Init /\ [][HistoryNext]_vars

(***************************************************************************)
(* The vocabulary of the properties                                        *)
(***************************************************************************)
\* The stage of the workflow, read off the Dashboard's state
Stage ==
    IF processing THEN "Processing"
    ELSE IF uploading THEN "Uploading"
    ELSE IF Truthy(error) THEN "Failed"
    ELSE IF Truthy(results) THEN "Ready"
    ELSE "Idle"

\* run r has been submitted and has not returned
InFlight(r) == r \in 1..Len(runs) /\ runs[r].pc # "done"

RunInFlight == \E r \in 1..Len(runs) : InFlight(r)

AllCalls == {"uploadCSV", "processCSV", "getResults", "getSignals"}

\* the step is the return of run r
Returns(r) == InFlight(r) /\ runs'[r].pc = "done"

(***************************************************************************)
(* Properties of the workflow (DashboardSpec)                              *)
(***************************************************************************)
\* C1: the workflow becomes Ready only by the return of a run whose upload,
\* process, results and signals calls all reported success; and a run whose
\* signals call fails after its results call succeeded returns with the stage
\* Failed and results null.  (Violated: the results of an earlier run stay.)
C1_ReadyOnlyAfterAllAndNoResultsOnFailure ==
    [][/\ (Stage # "Ready" /\ Stage' = "Ready") =>
             \E r \in 1..Len(runs) : Returns(r) /\ runs'[r].passed = AllCalls
       /\ \A r \in 1..Len(runs) :
             (Returns(r) /\ runs[r].pc = "getSignals" /\ "getSignals" \notin runs'[r].passed)
                => (Stage' = "Failed" /\ results' = JNull)]_vars

\* C2: results and signals are non-null only in stage Ready, and error is
\* non-empty only in stage Failed.  (Violated: a later run starts, or fails,
\* with the results of an earlier run still held.)
C2_ResultsOnlyWhenReady ==
    /\ (results # JNull \/ signals # JNull) => Stage = "Ready"
    /\ Truthy(error) => (Stage = "Failed" /\ results = JNull)

\* C6: a step that selects a new file leaves the workflow Idle with results,
\* signals, chart reference and error all unset.  (Violated: handleFileChange
\* sets the file and its name only.)
C6_FileSelectionResets ==
    [][file' # file =>
          /\ Stage' = "Idle"
          /\ results' = JNull
          /\ signals' = JNull
          /\ chartUrl' = JStr(<<>>)
          /\ error' = JStr(<<>>)]_vars

\* C7: while a run is in flight the file input and the submit button are
\* disabled, a flag is set, the selected file does not change and no second run
\* starts: at most one run is in flight.
C7_OneRunInFlight ==
    /\ [](RunInFlight => (uploading \/ processing))
    /\ [](Cardinality({r \in 1..Len(runs) : InFlight(r)}) <= 1)
    /\ [][RunInFlight => (file' = file /\ fileName' = fileName /\ Len(runs') = Len(runs))]_vars

\* C7 witness: the second run is in flight, past its upload, after the first returned
C7_Witness ==
    /\ Len(runs) = 2
    /\ runs[1].pc = "done"
    /\ runs[2].pc = "getSignals"
    /\ uploading /\ processing

(***************************************************************************)
(* Properties of the session (AuthSpec)                                    *)
(***************************************************************************)
\* C3: when a call of logout returns, whether api.logout() fulfilled or
\* rejected, the user is null.  (Violated: the catch of logout leaves the user.)
C3_LogoutEndsAnonymous ==
    [][\A c \in 1..Len(calls) :
          (calls[c].op = "logout" /\ calls[c].pc = "await" /\ calls'[c].pc = "done")
             => user' = JNull]_vars

(***************************************************************************)
(* Properties of the sector panel (SectorSpec)                             *)
(***************************************************************************)
\* C4: the return of a fetchData whose period is no longer the selected one
\* changes none of the displayed entries, summary and error flag.  (Violated:
\* fetchData compares nothing when its requests settle.)
C4_StaleResponseIgnored ==
    [][\A i \in 1..Len(fetches) :
          (fetches[i].pc = "await" /\ fetches'[i].pc # "await" /\ fetches[i].period # period.v)
             => UNCHANGED <<sectorData, summary, sectorError>>]_vars

\* C5: when Promise.all of a fetchData rejects, the panel has its error set, no
\* entries and no summary.  (Violated: the catch sets the error only.)
C5_RejectionClearsData ==
    [][\A i \in 1..Len(fetches) :
          (fetches[i].pc = "await" /\ fetches'[i].pc = "rejected")
             => (Truthy(sectorError') /\ sectorData' = JArr(<<>>) /\ summary' = JNull)]_vars

(***************************************************************************)
(* Properties of handleResponse (Spec)                                     *)
(***************************************************************************)
\* the response handleResponse has settled on was an error that is not markup
\* and whose body is JSON
JsonErrorSettled ==
    /\ response # <<>> /\ settled # <<>>
    /\ ~Ok(response[1])
    /\ ~IsHtml(response[1].contentType)
    /\ response[1].body.present
    /\ JsonParse(response[1].body.text).ok

\* the payload's message if it has one, else its detail, else the status
PayloadMessage(payload, status) ==
    IF Get(payload, K_message) # JUndefined THEN Get(payload, K_message).v
    ELSE IF Get(payload, K_detail) # JUndefined THEN Get(payload, K_detail).v
    ELSE Text.http \o NumToStr(status)

\* C8: on an error response that is not markup and whose body is JSON,
\* handleResponse rejects with the payload's message, else its detail, else
\* 'HTTP <status>', which is not the 'HTTP <status>: <statusText>' of a body
\* that does not parse.  (Violated: the catch replaces the Error of the try.)
C8_ApplicationErrorMessage ==
    JsonErrorSettled =>
        /\ settled[1].state = "rejected"
        /\ settled[1].reason.message =
              PayloadMessage(JsonParse(response[1].body.text).val, response[1].status)
        /\ settled[1].reason.message # HttpStatusTextMessage(response[1])

\* C9: on a 2xx response whose body is no JSON, handleResponse rejects with
\* 'Invalid JSON response: ', the first 100 characters of the body at most, and
\* '...'.  (Violated: the body was read by json() and text() rejects.)
C9_MalformedResponseSnippet ==
    (/\ response # <<>> /\ settled # <<>>
     /\ Ok(response[1])
     /\ ~JsonParse(response[1].body.text).ok)
    => /\ settled[1].state = "rejected"
       /\ settled[1].reason.name = "Error"
       /\ \E n \in 0..SNIPPET_LEN :
             /\ n <= Len(response[1].body.text)
             /\ settled[1].reason.message =
                   Text.invalidJsonResponse \o SubSeq(response[1].body.text, 1, n) \o Text.ellipsis

\* C10: on an error response whose content type contains text/html,
\* handleResponse rejects with an Error whose message holds the status and the
\* status text, and no reader of the body was called.
C10_MarkupErrorIsServerFault ==
    (/\ response # <<>> /\ settled # <<>>
     /\ ~Ok(response[1])
     /\ response[1].contentType # JNull
     /\ Includes(response[1].contentType.v, Sample.html))
    => /\ settled[1].state = "rejected"
       /\ settled[1].reason.name = "Error"
       /\ Includes(settled[1].reason.message, NumToStr(response[1].status))
       /\ Includes(settled[1].reason.message, response[1].statusText)
       /\ response[1].calls = <<>>
       /\ ~response[1].bodyUsed

MSG_500 == <<"S", "e", "r", "v", "e", "r", " ", "e", "r", "r", "o", "r", ":", " ", "5",
    "0", "0", " ", "I", "n", "t", "e", "r", "n", "a", "l", " ", "S", "e", "r", "v",
    "e", "r", " ", "E", "r", "r", "o", "r">>

\* C10 witness: a 500 page with a charset in its content type, settled
C10_Witness ==
    /\ response # <<>> /\ settled # <<>>
    /\ response[1].status = 500
    /\ response[1].contentType = JStr(Sample.htmlUtf8)
    /\ response[1].body = Body(Sample.page)
    /\ settled[1] = Rejected(JError("Error", MSG_500))

(***************************************************************************)
(* Properties of the session, continued (AuthSpec, AuthFairSpec)           *)
(***************************************************************************)
\* the probe succeeded with the logged-in flag true
LoggedIn(data) == ~Threw(data) /\ Truthy(Get(data.value, K_logged_in))

\* the step is the probe settling with reply
ProbeSettles(reply) == calls # <<>> /\ GetUserSettles(1, reply)

\* only the first call is the probe, and before it the session is Probing
OneProbe ==
    /\ (calls = <<>>) => (loading /\ user = JNull)
    /\ \A c \in 1..Len(calls) : (calls[c].op = "checkLoggedIn") <=> (c = 1)

\* C11 as stated: the session starts in Probing with one probe call; when the
\* probe settles the loading flag becomes false and the user becomes the
\* probe's identity if and only if the probe succeeded with the logged-in flag
\* true, and null otherwise; and the loading flag eventually becomes false.
\* (Violated: a login that succeeded while the probe was outstanding stays.)
C11_ProbeDecidesSession ==
    /\ []OneProbe
    /\ [][\A reply \in GetUserReplies : ProbeSettles(reply) =>
            /\ loading' = FALSE
            /\ user' = IF LoggedIn(ApiCall(reply))
                       THEN Get(ApiCall(reply).value, K_username) ELSE JNull]_vars
    /\ <>(~loading)

\* C11 amended: as C11, but a probe that fails or reports the flag false
\* leaves the user as it is: null, unless a login succeeded meanwhile.
C11_ProbeSettlesSession ==
    /\ []OneProbe
    /\ [][\A reply \in GetUserReplies : ProbeSettles(reply) =>
            /\ loading' = FALSE
            /\ (Len(calls) = 1 /\ ~LoggedIn(ApiCall(reply))) => user' = JNull
            /\ user' = IF LoggedIn(ApiCall(reply))
                       THEN Get(ApiCall(reply).value, K_username) ELSE user]_vars
    /\ <>(~loading)

\* C11 witness: the probe failed after a login had succeeded, and the session
\* is no longer loading, with the user of the login
C11_Witness ==
    /\ Len(calls) = 2
    /\ calls[1].pc = "done" /\ calls[1].data.state = "rejected"
    /\ calls[2].op = "login" /\ calls[2].returned = SuccessTrue
    /\ ~loading
    /\ user = JStr(calls[2].username)

\* the reply is an error response that carries a message of the server: it is
\* not markup and its body is JSON
CarriesServerMessage(reply) ==
    /\ reply.kind = "response"
    /\ ~Ok(reply.response)
    /\ ~IsHtml(reply.response.contentType)
    /\ reply.response.body.present
    /\ JsonParse(reply.response.body.text).ok

\* the message the server provided with the reply
ServerMessage(reply) ==
    IF CarriesServerMessage(reply)
    THEN JStr(PayloadMessage(JsonParse(reply.response.body.text).val, reply.response.status))
    ELSE Get(ApiCall(reply).value, K_message)

\* C12: when api.login settles with the success flag, the user becomes the
\* returned username and login returns success; in every other outcome the user
\* is unchanged and login returns a failure, with the message of the server when
\* the reply lacks the flag or is an error carrying a message.  (Violated: the
\* catch of login returns its fixed text.)
C12_LoginReportsServerMessage ==
    [][\A c \in 1..Len(calls) : \A reply \in LoginReplies(calls[c].username) :
          LoginSettles(c, reply) =>
             IF ~Threw(ApiCall(reply)) /\ Truthy(Get(ApiCall(reply).value, K_success))
             THEN /\ user' = Get(ApiCall(reply).value, K_username)
                  /\ calls'[c].returned = SuccessTrue
             ELSE /\ user' = user
                  /\ Get(calls'[c].returned, K_success) = JBool(FALSE)
                  /\ (CarriesServerMessage(reply) \/ ~Threw(ApiCall(reply)))
                        => Get(calls'[c].returned, K_message) = ServerMessage(reply)]_vars

(***************************************************************************)
(* Properties of the workflow, continued (DashboardSpec)                   *)
(***************************************************************************)
\* the reply makes the api call reject with an error of handleResponse
Classified(reply) == reply.kind = "response" /\ ApiCall(reply).state = "rejected"

\* the step leaves the workflow Failed with the message of the error of reply
FailsWithMessageOf(reply) ==
    (Classified(reply) /\ Stage' = "Failed") => error' = JStr(ApiCall(reply).reason.message)

\* C13: when the workflow enters Failed because the upload, process, results
\* or signals call rejected with a classified error, the error in the state is
\* the message of that error.  (Violated: the catch blocks set fixed texts.)
C13_FailedShowsClassifiedMessage ==
    [][\A r \in 1..Len(runs) :
          /\ \A reply \in UploadReplies :
                UploadCSVSettles(r, reply) => FailsWithMessageOf(reply)
          /\ \A reply \in ProcessReplies :
                ProcessCSVSettles(r, reply) => FailsWithMessageOf(reply)
          /\ \A reply \in ResultsReplies(r) :
                GetResultsSettles(r, reply) => FailsWithMessageOf(reply)
          /\ \A reply \in SignalsReplies(r) :
                GetSignalsSettles(r, reply) => FailsWithMessageOf(reply)]_vars

\* the call fulfilled with a value whose success flag is set
ReportsSuccess(reply) ==
    ~Threw(ApiCall(reply)) /\ Truthy(Get(ApiCall(reply).value, K_success))

\* the call fulfilled with a value that lacks the success flag
LacksSuccess(reply) ==
    ~Threw(ApiCall(reply)) /\ ~Truthy(Get(ApiCall(reply).value, K_success))

\* the order of the requests of a run
RequestOrder ==
    {<<"uploadCSV", "processCSV">>, <<"processCSV", "getResults">>,
     <<"getResults", "getSignals">>}

\* C14: a run issues its requests in the order upload, process, results,
\* signals; the process request follows only an upload response with the
\* success flag, the results request only a process response with the flag;
\* and on an upload response without the flag the run returns, no further
\* request issued, with the stage Failed and the server's message or
\* 'Upload failed'.
C14_RequestsOrderedAndGated ==
    [][/\ Len(runs') > Len(runs) => runs'[Len(runs')].pc = "uploadCSV"
       /\ \A r \in 1..Len(runs) :
          /\ runs'[r].pc \in {runs[r].pc, "done"} \/ <<runs[r].pc, runs'[r].pc>> \in RequestOrder
          /\ runs[r].pc = "done" => runs'[r].pc = "done"
          /\ \A reply \in UploadReplies : UploadCSVSettles(r, reply) =>
                /\ runs'[r].pc = "processCSV" => ReportsSuccess(reply)
                /\ LacksSuccess(reply) =>
                      /\ runs'[r].pc = "done"
                      /\ Stage' = "Failed"
                      /\ error' = Or(Get(ApiCall(reply).value, K_message), JStr(Text.uploadFailed))
          /\ \A reply \in ProcessReplies : ProcessCSVSettles(r, reply) =>
                (runs'[r].pc = "getResults" => ReportsSuccess(reply))]_vars

\* C14 witness: the upload response of the first run lacked the flag and had
\* no message: the run has returned with 'Upload failed', nothing else passed
C14_Witness ==
    /\ Len(runs) = 1
    /\ runs[1].pc = "done" /\ runs[1].passed = {}
    /\ ~uploading /\ ~processing
    /\ error = JStr(Text.uploadFailed)

\* C15: a submit with no file selected sets the fixed validation message and
\* starts no run (no request is issued); the flags stay false and results,
\* signals and the chart reference are unchanged.
C15_SubmitWithoutFileFailsLocally ==
    [][(~Truthy(file) /\ SubmitEvent) =>
          /\ error' = JStr(Text.pleaseSelect)
          /\ runs' = runs /\ runs = <<>>
          /\ ~uploading' /\ ~processing'
          /\ results' = results /\ signals' = signals /\ chartUrl' = chartUrl]_vars

\* C15 witness: the validation message after a submit with no file and no run
C15_Witness ==
    /\ ~Truthy(file)
    /\ runs = <<>>
    /\ error = JStr(Text.pleaseSelect)
    /\ ~uploading /\ ~processing

\* the chart-iframe endpoint, and the chart-iframe of uploads 42 and "17"
URL_CHART_IFRAME == <<"h", "t", "t", "p", ":", "/", "/", "l", "o", "c", "a", "l", "h",
    "o", "s", "t", ":", "8", "0", "0", "0", "/", "c", "h", "a", "r", "t", "-", "i",
    "f", "r", "a", "m", "e">>
URL_CHART_IFRAME_42 == <<"h", "t", "t", "p", ":", "/", "/", "l", "o", "c", "a", "l",
    "h", "o", "s", "t", ":", "8", "0", "0", "0", "/", "c", "h", "a", "r", "t", "-",
    "i", "f", "r", "a", "m", "e", "?", "u", "p", "l", "o", "a", "d", "_", "i", "d",
    "=", "4", "2">>
URL_CHART_IFRAME_17 == <<"h", "t", "t", "p", ":", "/", "/", "l", "o", "c", "a", "l",
    "h", "o", "s", "t", ":", "8", "0", "0", "0", "/", "c", "h", "a", "r", "t", "-",
    "i", "f", "r", "a", "m", "e", "?", "u", "p", "l", "o", "a", "d", "_", "i", "d",
    "=", "1", "7">>

\* C16: when the workflow becomes Ready the chart reference becomes the
\* chart-iframe endpoint with no upload_id, in the step that stores the results
\* and with no request outstanding (none is issued for it); and
\* getChartIframe(uploadId) appends '?upload_id=<uploadId>' when an uploadId is
\* given and nothing when none is (undefined, null).
C16_ChartReferenceIsIframeEndpoint ==
    /\ [](Stage = "Ready" => chartUrl = JStr(URL_CHART_IFRAME))
    /\ [][(Stage # "Ready" /\ Stage' = "Ready") =>
             /\ chartUrl' = JStr(URL_CHART_IFRAME)
             /\ results' # results
             /\ ~RunInFlight']_vars
    /\ [](/\ getChartIframe(JUndefined) = URL_CHART_IFRAME
          /\ getChartIframe(JNull) = URL_CHART_IFRAME
          /\ getChartIframe(JNum(42)) = URL_CHART_IFRAME_42
          /\ getChartIframe(JStr(<<"1", "7">>)) = URL_CHART_IFRAME_17)

\* C16 witness: Ready after the first run, with the chart reference
C16_Witness ==
    /\ Len(runs) = 1 /\ runs[1].pc = "done"
    /\ runs[1].passed = AllCalls
    /\ Stage = "Ready"
    /\ chartUrl = JStr(URL_CHART_IFRAME)

\* C17: the loading flag is true only while the probe has not settled, and
\* once false it is never true again, whatever login, logout and register do.
C17_LoadingOnlyWhileProbing ==
    /\ [](loading => (calls = <<>> \/ calls[1].pc = "await"))
    /\ [][~loading => ~loading']_vars

\* C17 witness: not loading, after the probe, a login and a logout
C17_Witness ==
    /\ Len(calls) = 3
    /\ \A c \in 1..3 : calls[c].pc = "done"
    /\ calls[2].op = "login" /\ calls[3].op = "logout"
    /\ ~loading

\* C18: register changes neither the user nor the loading flag, at its call
\* and when api.register settles; it returns the response of the server as it
\* is when the call fulfils and a failure value when it rejects.
C18_RegisterLeavesSession ==
    [][/\ (Len(calls') > Len(calls) /\ calls'[Len(calls')].op = "register")
             => (user' = user /\ loading' = loading)
       /\ \A c \in 1..Len(calls) : \A reply \in RegisterReplies :
             RegisterSettles(c, reply) =>
                /\ user' = user /\ loading' = loading
                /\ calls'[c].returned =
                      IF ApiCall(reply).state = "fulfilled" THEN ApiCall(reply).value
                      ELSE Failure(JStr(Text.registrationFailed))]_vars

\* C18 witness: a register call returned the server's success and nobody is
\* logged in
C18_Witness ==
    /\ Len(calls) = 2
    /\ calls[1].pc = "done"
    /\ calls[2].op = "register" /\ calls[2].pc = "done"
    /\ Truthy(Get(calls[2].returned, K_success))
    /\ user = JNull /\ ~loading

\* what a call hands to the component that made it to show: a failure with a
\* message.  handleLogout of the Navbar drops what logout() returns.
SurfacesError(call) ==
    /\ call.op # "logout"
    /\ call.returned.t = "obj"
    /\ Get(call.returned, K_success) = JBool(FALSE)
    /\ Truthy(Get(call.returned, K_message))

\* C19 (for the session): when the api call of a login, register or logout
\* rejects, the call ends with an error the user sees; the probe alone may drop
\* its error.  (Violated: a failed logout returns false, which the Navbar drops,
\* and the user stays.)
C19_FailuresAreSurfaced ==
    [][\A c \in 1..Len(calls) :
          (/\ calls[c].op # "checkLoggedIn"
           /\ calls[c].pc = "await" /\ calls'[c].pc = "done"
           /\ calls'[c].data.state = "rejected")
          => SurfacesError(calls'[c])]_vars

\* the place of a request in a run
Rank ==
    [uploadCSV |-> 1, processCSV |-> 2, getResults |-> 3, getSignals |-> 4, done |-> 5]

\* C20: a run issues each of its requests once at most (it only moves on to a
\* later request or returns, and stays returned), and when no run is in flight,
\* so after a run that ended Failed, a request is issued by a submit only.
C20_NoAutomaticRetry ==
    [][/\ \A r \in 1..Len(runs) :
             runs'[r].pc # runs[r].pc => Rank[runs'[r].pc] > Rank[runs[r].pc]
       /\ (~RunInFlight /\ RunInFlight') => (~SubmitDisabled /\ Len(runs') = Len(runs) + 1)
       /\ Len(runs') # Len(runs) => (~SubmitDisabled /\ file' = file /\ Truthy(file))]_vars

\* C20 witness: the first run failed at its process call, and the second run,
\* submitted after it, awaits its upload
C20_Witness ==
    /\ Len(runs) = 2
    /\ runs[1].pc = "done" /\ runs[1].passed = {"uploadCSV"}
    /\ runs[2].pc = "uploadCSV"
    /\ uploading /\ ~processing

(***************************************************************************)
(* Properties of the sector panel, continued (SectorSpec)                  *)
(***************************************************************************)
\* the performances of the entries displayed
Performances == [i \in 1..Len(sectorData.v) |-> Get(sectorData.v[i], K_performance).v]

\* the largest absolute performance displayed
Largest ==
    CHOOSE m \in {Abs(Performances[i]) : i \in 1..Len(Performances)} :
        \A i \in 1..Len(Performances) : m >= Abs(Performances[i])

\* the width w is q percent
IsPercent(w, q) == w.t = "num" /\ w.n = q * w.d

\* C21: with entries displayed, the width of the bar of each is
\* min(100, abs(performance) / largest * 100) percent, 100 percent for an entry
\* with the largest absolute performance (10 and -5 give 100 and 50 percent);
\* the bar of a negative performance is right-aligned, any other left-aligned;
\* with no entries the divisor is 5.  (Violated: entries that are all zero.)
C21_BarWidthIsShareOfLargest ==
    /\ Len(sectorData.v) = 0 => maxPerformance = 5
    /\ \A i \in 1..Len(sectorData.v) :
          /\ barWidth(sectorData.v[i]).t = "num"
          /\ barWidth(sectorData.v[i]).n * Largest =
                Min(100 * Largest, Abs(Performances[i]) * 100) * barWidth(sectorData.v[i]).d
          /\ Abs(Performances[i]) = Largest => IsPercent(barWidth(sectorData.v[i]), 100)
          /\ marginLeft(sectorData.v[i]) = IF Performances[i] < 0 THEN "auto" ELSE "0"
    /\ Performances = <<10, -5>> =>
          /\ IsPercent(barWidth(sectorData.v[1]), 100)
          /\ IsPercent(barWidth(sectorData.v[2]), 50)
          /\ marginLeft(sectorData.v[2]) = "auto"

\* C27: whatever entries are displayed, also entries that are all zero, the
\* divisor is not zero and the width of every bar is a number from 0 to 100
\* percent.  (Violated: entries that are all zero make the divisor 0.)
C27_DivisorIsNotZero ==
    /\ maxPerformance # 0
    /\ \A i \in 1..Len(sectorData.v) :
          /\ barWidth(sectorData.v[i]).t = "num"
          /\ barWidth(sectorData.v[i]).d > 0
          /\ 0 <= barWidth(sectorData.v[i]).n
          /\ barWidth(sectorData.v[i]).n <= 100 * barWidth(sectorData.v[i]).d

\* the entries and the summary the server gives for period p
EntriesOf(p) ==
    Get(ApiCall(OkJson(Sample.sectorDataOf \o FigureOf(p) \o Sample.bracketBraces)).value,
        K_data)

SummaryOf(p) == ApiCall(OkJson(Sample.summaryOf \o FigureOf(p) \o Sample.brace)).value

\* C22: when the fetch for a period completes without a rejection, neither the
\* entries nor the summary displayed are those of another period: the panel
\* does not show the summary of the period with the entries of an earlier one.
\* (Violated: a series response without the success flag leaves the entries.)
C22_RefetchReplacesWholesale ==
    [][\A i \in 1..Len(fetches) :
          (fetches[i].pc = "await" /\ fetches'[i].pc = "fulfilled") =>
             \A q \in SamplePeriods \ {fetches[i].period} :
                /\ sectorData' # EntriesOf(q)
                /\ summary' # SummaryOf(q)]_vars

URL_EXPORT_SIGNALS == <<"h", "t", "t", "p", ":", "/", "/", "l", "o", "c", "a", "l",
    "h", "o", "s", "t", ":", "8", "0", "0", "0", "/", "e", "x", "p", "o", "r", "t",
    "-", "s", "i", "g", "n", "a", "l", "s">>

\* C23: an export opens the export URL and leaves the whole workflow state as
\* it was: the selected file, both flags, the error, the results, the signals,
\* the chart reference, and the runs with the requests they await (no request
\* is issued); the URL is there at once, as a text.
C23_ExportLeavesWorkflowState ==
    [][opened' # opened =>
          /\ opened' = Append(opened, URL_EXPORT_SIGNALS)
          /\ UNCHANGED <<file, fileName, uploading, processing, error, results, signals,
                         chartUrl, runs>>]_vars

\* an export has happened while a later run is in flight
C23_Witness ==
    /\ opened # <<>>
    /\ Truthy(results)
    /\ uploading \/ processing

\* a login or a logout has completed and has set the session
SessionSetByCall ==
    \E c \in 1..Len(calls) :
        /\ calls[c].pc = "done"
        /\ \/ calls[c].op = "login" /\ calls[c].returned = SuccessTrue
           \/ calls[c].op = "logout" /\ calls[c].returned = JBool(TRUE)

\* C24: once a login or a logout has completed, the response of the probe,
\* arriving late, does not change the user.
\* (Violated: the probe's response sets the user it names, whatever came before.)
C24_LateProbeDoesNotOverride ==
    [][\A reply \in GetUserReplies :
          (ProbeSettles(reply) /\ SessionSetByCall) => user' = user]_vars

ResultsOf(r) == ApiCall(OkJson(Sample.resultsOf \o NumToStr(r) \o Sample.brace)).value

SignalsOf(r) == ApiCall(OkJson(Sample.signalsOf \o NumToStr(r) \o Sample.braceBracket)).value

FetchOutstanding ==
    \E i \in 1..Len(fetches) :
        /\ fetches[i].pc = "await"
        /\ JStr(fetches[i].period) = period

\* C28: loading is true whenever a fetch for the period now selected is
\* outstanding.  (Violated: the completion of a superseded fetch clears it.)
C28_LoadingWhileFetchOutstanding == FetchOutstanding => sectorLoading

(***************************************************************************)
(* Properties of the history page (HistorySpec)                            *)
(***************************************************************************)
\* the invocations of handleViewDetails
DetailViews == {v \in 1..Len(views) : views[v].op = "handleViewDetails"}

\* the entry the server gives for uploadId
EntryOf(uploadId) ==
    Get(ApiCall(OkJson(Sample.entryOf \o uploadId.v \o Sample.quoteBrace \o Sample.brace)).value,
        HistoryKey.entry)

\* the detail request requested last
LastView == CHOOSE w \in DetailViews : \A x \in DetailViews : x <= w

\* C29: a detail request that fails or reports no success leaves the expanded
\* entry and the history list as they were; and the step in which the last
\* outstanding detail request settles leaves expanded the entry of the
\* uploadId requested last, if that request succeeded.
\* (Violated: an earlier request that settles last expands its own entry.)
C29_LastRequestedEntryExpanded ==
    [][\A v \in DetailViews : \A reply \in HistoryDetailReplies(views[v].uploadId) :
          GetHistoryDetailSettles(v, reply) =>
             /\ ~ReportsSuccess(reply) => UNCHANGED <<selectedEntry, history>>
             /\ (/\ \A w \in DetailViews : views'[w].pc = "done"
                 /\ ~Threw(views'[LastView].result)
                 /\ Truthy(Get(views'[LastView].result.value, K_success)))
                => selectedEntry' = EntryOf(views[LastView].uploadId)]_vars
=============================================================================
